---- MODULE Spec2Model ----
(***************************************************************************)
(* Model of the frontier-based workflow engine of src/app/workflow_engine.py *)
(* (WorkflowExecutionContext, the node executors and WorkflowEngine).       *)
(*                                                                         *)
(* One execution of one workflow is modelled.  The scheduler coroutine     *)
(* (_execute_workflow) and every node coroutine (_execute_node) are asyncio *)
(* tasks: each action below is the code that runs between two awaits.      *)
(***************************************************************************)
EXTENDS Integers, Sequences, FiniteSets, TLC

\* ---------------------------------------------------------------- bounds
\* number of cancel_execution calls issued by clients
MaxCancels == 2
\* number of provide_user_input calls issued by clients
MaxInputs == 2
\* number of node tasks one execution may create
MaxTasks == 6
\* number of executions started from one stored workflow
MaxExecutions == 2
\* number of WorkflowManager calls issued by the client
MaxCalls == 3
\* number of node tasks one asyncio.gather runs, each emitting two events
MaxNodeTasks == 2
\* number of subscriptions held at a time
MaxSubs == 2
\* number of calls a client makes with ids and names of its choice
MaxRequests == 4
MaxClients == 3
MaxMessages == 2
MaxSources == 2
MaxCases == 2
\* largest reading of the clock
MaxClock == 1

\* ------------------------------------------------------------ vocabulary
RUNNING == "running"
COMPLETED == "completed"
FAILED == "failed"

NoNode == -1
\* dict.get on a key that was never stored: no task's future is in the table
NoTask == 0

\* ------------------------------------------------------------- workflows
\* A workflow: n nodes indexed 0..n-1, a type per node, edges <<source,target>>,
\* and the fields the control executors read: DecisionNodeConfig.branches
\* (name -> target), ParallelNodeConfig.branches (targets), LoopNodeConfig.body
\* and LoopNodeConfig.max_iterations.
Workflow(n, type, edges, branches, par, body, maxit) ==
    [n |-> n, type |-> type, edges |-> edges, branches |-> branches,
     par |-> par, body |-> body, max_iterations |-> maxit]

Task3 == (0 :> "task" @@ 1 :> "task" @@ 2 :> "task")
NoBranches == <<>>

\* 0 -> 1, 0 -> 2 : two independent branches behind one start node
WFork == Workflow(3, Task3, {<<0, 1>>, <<0, 2>>}, NoBranches, {}, NoNode, 0)
\* 0 -> 1 -> 2
WChain == Workflow(3, Task3, {<<0, 1>>, <<1, 2>>}, NoBranches, {}, NoNode, 0)
\* 0 alone, 1 <-> 2 on a dependency cycle
WCycle == Workflow(3, Task3, {<<1, 2>>, <<2, 1>>}, NoBranches, {}, NoNode, 0)
\* 0 -> 1, 0 -> 2, 1 -> 3, 2 -> 3
WDiamond ==
    Workflow(4, (0 :> "task" @@ 1 :> "task" @@ 2 :> "task" @@ 3 :> "task"),
             {<<0, 1>>, <<0, 2>>, <<1, 3>>, <<2, 3>>}, NoBranches, {}, NoNode, 0)
\* decision 0 with the single branch a -> 1; edges 0 -> 1, 0 -> 2, 2 -> 1
WDecision ==
    Workflow(3, (0 :> "decision" @@ 1 :> "task" @@ 2 :> "task"),
             {<<0, 1>>, <<0, 2>>, <<2, 1>>},
             [b \in {"a"} |-> 1], {}, NoNode, 0)
\* decision 0 with branches a -> 1, b -> 2; edges 0 -> 1, 0 -> 2
WSwitch ==
    Workflow(3, (0 :> "decision" @@ 1 :> "task" @@ 2 :> "task"),
             {<<0, 1>>, <<0, 2>>},
             [b \in {"a", "b"} |-> IF b = "a" THEN 1 ELSE 2], {}, NoNode, 0)
\* parallel 0 with branches [2]; edges 0 -> 1, 0 -> 2, 1 -> 2 (user_input)
WParallel ==
    Workflow(3, (0 :> "parallel" @@ 1 :> "task" @@ 2 :> "user_input"),
             {<<0, 1>>, <<0, 2>>, <<1, 2>>}, NoBranches, {2}, NoNode, 0)
\* loop 0 with body 2; edges 0 -> 1, 1 -> 2
WLoop ==
    Workflow(3, (0 :> "loop" @@ 1 :> "task" @@ 2 :> "task"),
             {<<0, 1>>, <<1, 2>>}, NoBranches, {}, 2, 1)
\* 0 -> 1 (user_input), 0 -> 2
WInput ==
    Workflow(3, (0 :> "task" @@ 1 :> "user_input" @@ 2 :> "task"),
             {<<0, 1>>, <<0, 2>>}, NoBranches, {}, NoNode, 0)
\* parallel 0 with branches [2]; edges 0 -> 1, 1 -> 2, 2 -> 3
WRerun ==
    Workflow(4, (0 :> "parallel" @@ 1 :> "task" @@ 2 :> "task" @@ 3 :> "task"),
             {<<0, 1>>, <<1, 2>>, <<2, 3>>}, NoBranches, {2}, NoNode, 0)

Workflows ==
    {WFork, WChain, WCycle, WDiamond, WDecision, WSwitch, WParallel, WLoop, WInput,
     WRerun}

\* ----------------------------------------------------------------- state
VARIABLES
    wf,        \* the workflow being executed
    ctx,       \* WorkflowExecutionContext
    state,     \* WorkflowExecutionState (what status queries return)
    events,    \* the events emitted on the bus, in emission order
    wfTask,    \* position of the scheduler task (execution_tasks[execution_id])
    tasks,     \* the local list `tasks` of the current scheduling pass (task ids)
    ntasks,    \* every node task created so far: [node, pc, success, future]
    sleeps,    \* parity of the number of asyncio.sleep(0.1) calls of the scheduler
    cancels,   \* number of cancel_execution calls made
    inputs     \* number of provide_user_input calls made

engineVars == <<wf, ctx, state, events, wfTask, tasks, ntasks, sleeps, cancels, inputs>>

\* start of executions from a stored definition (start_workflow_by_name)
VARIABLES
    dictHeap,      \* the dict objects: dictHeap[1] is the `variables` dict of the
                   \* stored WorkflowConfig, the others were created by `or {}`
    ctxVariables   \* execution -> the dict object context.variables refers to

startVars == <<dictHeap, ctxVariables>>

\* the workflow registry (WorkflowManager of src/app/manager.py and of
\* src/app_wf/manager.py) and its client
VARIABLES
    variant,       \* which of the two WorkflowManager classes is running
    current_id,    \* WorkflowManager._current_id
    workflows,     \* WorkflowManager._workflows: name -> [workflow, backend]
    heap,          \* the Workflow objects: object id -> value
    held,          \* the objects the client has a reference to -> how it got them
    regEvents,     \* the event types the manager emitted, in order
    lastCall,      \* the last call of the client and what it returned
    assigned,      \* the numbers N of the names workflow_N assigned so far
    calls          \* number of manager calls made

regVars == <<variant, current_id, workflows, heap, held, regEvents, lastCall, assigned, calls>>

\* the event bus of src/app/workflow.py and the node tasks that emit on it
VARIABLES
    listeners,      \* EventBus.listeners: topic -> list of handlers
    event_history,  \* EventBus.event_history
    emitters,       \* per node task: where it is in _execute_node and in emit
    clock           \* time.time()

busVars == <<listeners, event_history, emitters, clock>>

\* the tables of the WorkflowEngine that its calls look an execution up in,
\* and the client that calls with ids and names of its choice
VARIABLES
    executions,   \* WorkflowEngine.executions / contexts / execution_tasks: id -> entry
    engineLog,    \* the event types the engine emitted, in order
    reply,        \* the last call and how it ended
    requests      \* number of calls made

lookVars == <<executions, engineLog, reply, requests>>

\* no call was made
NoReply == [op |-> "none", known |-> FALSE, result |-> "none"]

\* no engine has been built
LookOff ==
    /\ executions = <<>>
    /\ engineLog = <<>>
    /\ reply = NoReply
    /\ requests = 0

\* ---- the streaming endpoint (workflow_events_websocket) and the bus's clients
VARIABLES
    websocket_clients,  \* the sinks registered on the event bus
    connections         \* per websocket: where its connection handler is

wsVars == <<websocket_clients, connections>>

\* no streaming endpoint is part of the run
WsOff == websocket_clients = {} /\ connections = <<>>

\* ---- one node of the node library (merge, switch): linked, then executed
VARIABLES
    nodeCfg,     \* the node's config and the inputs its execution context holds
    nodePc,      \* new, linked, rejected or executed
    nodeResult   \* the NodeExecutionResult of execute

nodeVars == <<nodeCfg, nodePc, nodeResult>>

\* no single node is part of the run
NodeOff == nodeCfg = <<>> /\ nodePc = "off" /\ nodeResult = <<>>

vars == <<engineVars, startVars, regVars, busVars, lookVars, wsVars, nodeVars>>

\* the parts of the program a specification leaves alone
notEngine == <<startVars, regVars, busVars, lookVars, wsVars, nodeVars>>
notStart == <<engineVars, regVars, busVars, lookVars, wsVars, nodeVars>>
notReg == <<engineVars, startVars, busVars, lookVars, wsVars, nodeVars>>
notBus == <<engineVars, startVars, regVars, lookVars, wsVars, nodeVars>>
notLook == <<engineVars, startVars, regVars, busVars, wsVars, nodeVars>>
notWs == <<engineVars, startVars, regVars, busVars, lookVars, nodeVars>>
notNode == <<engineVars, startVars, regVars, busVars, lookVars, wsVars>>

\* no event bus has been built
BusOff ==
    /\ listeners = <<>>
    /\ event_history = <<>>
    /\ emitters = <<>>
    /\ clock = 0

\* what a call that has not happened returned
NoCall ==
    [op |-> "none", name |-> "", obj |-> 0, ok |-> FALSE,
     retName |-> "", retObj |-> 0, auto |-> FALSE]

\* no manager has been built
RegOff ==
    /\ variant = "app"
    /\ current_id = 0
    /\ workflows = <<>>
    /\ heap = <<>>
    /\ held = <<>>
    /\ regEvents = <<>>
    /\ lastCall = NoCall
    /\ assigned = {}
    /\ calls = 0

\* no execution has been started from the stored definition
StartOff ==
    /\ dictHeap = <<>>
    /\ ctxVariables = <<>>

Nodes == 0 .. (wf.n - 1)

\* ---------------------------------------------------------- pure helpers
Event(type, node) == [type |-> type, node |-> node]

\* EventBus.emit: the event is appended to the history
emit(history, ev) == Append(history, ev)

\* node_dependencies[i]: the sources of the edges into i
node_dependencies(w, i) == {e[1] : e \in {f \in w.edges : f[2] = i}}

\* node_dependents[i]: the targets of the edges out of i
node_dependents(w, i) == {e[2] : e \in {f \in w.edges : f[1] = i}}

\* ascending list of a finite set of integers (iteration order of a small
\* Python set of small non-negative ints)
RECURSIVE SortedSeq(_)
SortedSeq(S) ==
    IF S = {} THEN <<>>
    ELSE LET m == CHOOSE x \in S : \A y \in S : x <= y
         IN <<m>> \o SortedSeq(S \ {m})

\* every order in which a set of finished tasks can be iterated
Orders(S) ==
    {s \in [1 .. Cardinality(S) -> S] : \A i, j \in DOMAIN s : i # j => s[i] # s[j]}

\* list.remove(x): drops the first occurrence
RECURSIVE RemoveFirst(_, _)
RemoveFirst(s, x) ==
    IF s = <<>> THEN <<>>
    ELSE IF Head(s) = x THEN Tail(s)
    ELSE <<Head(s)>> \o RemoveFirst(Tail(s), x)

InSeq(s, x) == \E i \in DOMAIN s : s[i] = x

\* ------------------------------------------- WorkflowExecutionContext
\* __init__ + _build_dependency_graph
NewContext(w) ==
    LET roots == {i \in 0 .. (w.n - 1) : node_dependencies(w, i) = {}}
    IN [pending_nodes       |-> (0 .. (w.n - 1)) \ roots,
        ready_nodes         |-> roots,
        running_nodes       |-> {},
        completed_nodes     |-> {},
        failed_nodes        |-> {},
        node_outputs        |-> <<>>,
        loop_iterations     |-> [i \in 0 .. (w.n - 1) |-> 0],
        pending_user_inputs |-> [i \in 0 .. (w.n - 1) |-> NoTask]]

mark_node_running(c, n) ==
    [c EXCEPT !.ready_nodes = @ \ {n}, !.running_nodes = @ \cup {n}]

_is_node_ready(c, n) ==
    IF n \in c.completed_nodes \/ n \in c.failed_nodes THEN FALSE
    ELSE node_dependencies(wf, n) \subseteq c.completed_nodes

\* node_outputs[node_index] = output: the entry is created or replaced
mark_node_completed(c, n, output) ==
    LET c1 == [c EXCEPT !.running_nodes = @ \ {n},
                        !.completed_nodes = @ \cup {n},
                        !.node_outputs = (n :> output) @@ @]
        now == {d \in node_dependents(wf, n) : _is_node_ready(c1, d)}
    IN [c1 EXCEPT !.pending_nodes = @ \ now, !.ready_nodes = @ \cup now]

mark_node_failed(c, n) ==
    [c EXCEPT !.running_nodes = @ \ {n}, !.failed_nodes = @ \cup {n}]

has_work(c) == c.ready_nodes # {} \/ c.running_nodes # {}

is_complete(c) ==
    \/ Cardinality(c.completed_nodes) + Cardinality(c.failed_nodes) >= wf.n
    \/ ~has_work(c)

get_ready_nodes(c) == SortedSeq(c.ready_nodes)

\* ------------------------------------------------------- WorkflowEngine
NewState ==
    [status          |-> RUNNING,
     current_nodes   |-> <<>>,
     completed_nodes |-> <<>>,
     failed_nodes    |-> <<>>,
     node_states     |-> <<>>,
     error           |-> "",
     end_time        |-> FALSE]

\* start_workflow: context and state are created, workflow.started is emitted
\* and the scheduler task is created.
Init ==
    /\ wf \in Workflows
    /\ ctx = NewContext(wf)
    /\ state = [NewState EXCEPT !.node_states = [i \in 0 .. (wf.n - 1) |-> "none"]]
    /\ events = <<Event("workflow.started", NoNode)>>
    /\ wfTask = "created"
    /\ tasks = {}
    /\ ntasks = <<>>
    /\ sleeps = 0
    /\ cancels = 0
    /\ inputs = 0
    /\ StartOff
    /\ RegOff
    /\ BusOff
    /\ LookOff
    /\ WsOff
    /\ NodeOff

\* a serial scheduler: only the first ready node is given a task in a pass
SpawnFirst(ready, c, s, nt) ==
    IF ready = <<>> THEN [c |-> c, s |-> s, nt |-> nt]
    ELSE LET n == Head(ready)
         IN [c  |-> mark_node_running(c, n),
             s  |-> [s EXCEPT !.current_nodes = Append(@, n)],
             nt |-> Append(nt, [node |-> n, pc |-> "created", success |-> FALSE,
                                future |-> "none"])]

\* _execute_workflow, lines 614-620: every ready node is marked running,
\* appended to state.current_nodes and given a task
RECURSIVE SpawnAll(_, _, _, _)
SpawnAll(ready, c, s, nt) ==
    IF ready = <<>> THEN [c |-> c, s |-> s, nt |-> nt]
    ELSE LET n == Head(ready)
         IN SpawnAll(Tail(ready),
                     mark_node_running(c, n),
                     [s EXCEPT !.current_nodes = Append(@, n)],
                     Append(nt, [node |-> n, pc |-> "created", success |-> FALSE,
                                 future |-> "none"]))

\* _execute_workflow, lines 627-642: the results of the finished tasks; the
\* output of a task is identified by the task that produced it
RECURSIVE ProcessDone(_, _, _)
ProcessDone(order, c, s) ==
    IF order = <<>> THEN [c |-> c, s |-> s]
    ELSE LET r  == ntasks[Head(order)]
             c1 == IF r.success THEN mark_node_completed(c, r.node, Head(order))
                   ELSE mark_node_failed(c, r.node)
             s1 == IF r.success
                   THEN [s EXCEPT !.completed_nodes = Append(@, r.node)]
                   ELSE [s EXCEPT !.failed_nodes = Append(@, r.node)]
             s2 == IF InSeq(s1.current_nodes, r.node)
                   THEN [s1 EXCEPT !.current_nodes = RemoveFirst(@, r.node)]
                   ELSE s1
         IN ProcessDone(Tail(order), c1, s2)

\* _execute_workflow, lines 644-658: the final status after the loop
FinalStatus(c, s) ==
    IF c.failed_nodes # {}
    THEN [s EXCEPT !.status = FAILED,
                   !.error = "Workflow completed with failed nodes",
                   !.end_time = TRUE]
    ELSE [s EXCEPT !.status = COMPLETED, !.end_time = TRUE]

\* _execute_workflow from the loop test (line 601) to its next await:
\* asyncio.sleep (608), asyncio.wait (624) or the end of the coroutine.
LoopHead(c, s) ==
    IF has_work(c) /\ ~is_complete(c)
    THEN IF c.ready_nodes = {}
         THEN IF c.running_nodes # {}
              THEN /\ ctx' = c
                   /\ state' = s
                   /\ wfTask' = "sleep"
                   /\ sleeps' = 1 - sleeps
                   /\ UNCHANGED <<tasks, ntasks, events>>
              ELSE \* line 612 and the handler of lines 660-670
                   /\ ctx' = c
                   /\ state' = [s EXCEPT !.status = FAILED,
                                         !.error = "Workflow deadlock detected - no nodes can execute",
                                         !.end_time = TRUE]
                   /\ events' = emit(events, Event("workflow.failed", NoNode))
                   /\ wfTask' = "done"
                   /\ UNCHANGED <<tasks, ntasks, sleeps>>
         ELSE /\ Len(ntasks) + Cardinality(c.ready_nodes) <= MaxTasks
              /\ LET r == SpawnAll(get_ready_nodes(c), c, s, ntasks)
                 IN /\ ctx' = r.c
                    /\ state' = r.s
                    /\ ntasks' = r.nt
                    /\ tasks' = (Len(ntasks) + 1) .. Len(r.nt)
              /\ wfTask' = "wait"
              /\ UNCHANGED <<events, sleeps>>
    ELSE /\ ctx' = c
         /\ state' = FinalStatus(c, s)
         /\ events' = emit(events, Event("workflow.completed", NoNode))
         /\ wfTask' = "done"
         /\ UNCHANGED <<tasks, ntasks, sleeps>>

\* first step of the scheduler task
SchedulerStart ==
    /\ wfTask = "created"
    /\ LoopHead(ctx, state)
    /\ UNCHANGED <<wf, cancels, inputs>>

\* asyncio.wait(tasks, FIRST_COMPLETED) returns: `done` holds the tasks of this
\* pass that have finished by now, the others are dropped with `pending`
SchedulerWake ==
    /\ wfTask = "wait"
    /\ LET done == {t \in tasks : ntasks[t].pc = "done"}
       IN /\ done # {}
          /\ \E order \in Orders(done) :
                LET r == ProcessDone(order, ctx, state)
                IN LoopHead(r.c, r.s)
    /\ UNCHANGED <<wf, cancels, inputs>>

\* asyncio.sleep(0.1) returns, `continue`
SchedulerSleepWake ==
    /\ wfTask = "sleep"
    /\ LoopHead(ctx, state)
    /\ UNCHANGED <<wf, cancels, inputs>>

\* ----------------------------------------------------------- node tasks
SetPc(t, pc) == [ntasks EXCEPT ![t].pc = pc]

\* _execute_node, lines 675-686
NodeStart(t) ==
    /\ ntasks[t].pc = "created"
    /\ state' = [state EXCEPT !.node_states[ntasks[t].node] = RUNNING]
    /\ events' = emit(events, Event("node.started", ntasks[t].node))
    /\ ntasks' = SetPc(t, "started")
    /\ UNCHANGED <<wf, ctx, wfTask, tasks, sleeps, cancels, inputs>>

\* _execute_node, lines 697-725: the result is recorded in node_states and
\* node.completed / node.failed is emitted
Finish(t, ok, c) ==
    LET n == ntasks[t].node
    IN /\ state' = [state EXCEPT !.node_states[n] = IF ok THEN COMPLETED ELSE FAILED]
       /\ events' = emit(events, Event(IF ok THEN "node.completed" ELSE "node.failed", n))
       /\ ntasks' = [ntasks EXCEPT ![t].pc = "emitted", ![t].success = ok]
       /\ ctx' = c

\* DecisionNodeExecutor.execute: value is the content of the condition field
DecisionExecute(c, n, value) ==
    IF value \in DOMAIN wf.branches
    THEN LET matched == wf.branches[value]
             others  == {wf.branches[b] : b \in DOMAIN wf.branches} \ {matched}
             c1      == [c EXCEPT !.pending_nodes = @ \ others]
         IN IF matched \in c1.pending_nodes
            THEN [c1 EXCEPT !.pending_nodes = @ \ {matched},
                            !.ready_nodes = @ \cup {matched}]
            ELSE c1
    ELSE c

\* ParallelNodeExecutor.execute
ParallelExecute(c, n) ==
    LET now == wf.par \cap c.pending_nodes
    IN [c EXCEPT !.pending_nodes = @ \ now, !.ready_nodes = @ \cup now]

\* LoopNodeExecutor.execute: cond is the outcome of the break_on and
\* condition_field tests
LoopExecute(c, n, cond) ==
    LET current_iteration == c.loop_iterations[n]
        c1 == [c EXCEPT !.loop_iterations[n] = @ + 1]
        should_continue == current_iteration < wf.max_iterations /\ cond
    IN IF should_continue /\ wf.body # NoNode /\ wf.body \in c1.pending_nodes
       THEN [c1 EXCEPT !.pending_nodes = @ \ {wf.body},
                       !.ready_nodes = @ \cup {wf.body}]
       ELSE c1

\* executor.execute of a node that does not wait: agent, prompt, transform and
\* tool nodes succeed or fail, the control nodes always succeed
NodeExecute(t) ==
    /\ ntasks[t].pc = "started"
    /\ LET n == ntasks[t].node
           kind == wf.type[n]
       IN \/ /\ kind = "task"
             /\ \E ok \in BOOLEAN : Finish(t, ok, ctx)
          \/ /\ kind = "decision"
             /\ \E value \in DOMAIN wf.branches \cup {"other"} :
                    Finish(t, TRUE, DecisionExecute(ctx, n, value))
          \/ /\ kind = "parallel"
             /\ Finish(t, TRUE, ParallelExecute(ctx, n))
          \/ /\ kind = "loop"
             /\ \E cond \in BOOLEAN : Finish(t, TRUE, LoopExecute(ctx, n, cond))
    /\ UNCHANGED <<wf, wfTask, tasks, sleeps, cancels, inputs>>

\* UserInputNodeExecutor.execute, lines 493-511: the task creates a future of
\* its own, stores it under its node index (replacing what was stored there),
\* emits user.input_requested and waits for the future
NodeRequestInput(t) ==
    /\ ntasks[t].pc = "started"
    /\ wf.type[ntasks[t].node] = "user_input"
    /\ ctx' = [ctx EXCEPT !.pending_user_inputs[ntasks[t].node] = t]
    /\ events' = emit(events, Event("user.input_requested", ntasks[t].node))
    /\ ntasks' = [ntasks EXCEPT ![t].pc = "waiting", ![t].future = "pending"]
    /\ UNCHANGED <<wf, state, wfTask, tasks, sleeps, cancels, inputs>>

\* wait_for returns the value the task's future was resolved with
NodeInputArrived(t) ==
    /\ ntasks[t].pc = "waiting"
    /\ ntasks[t].future = "resolved"
    /\ Finish(t, TRUE, ctx)
    /\ UNCHANGED <<wf, wfTask, tasks, sleeps, cancels, inputs>>

\* wait_for times out: it cancels the task's future and raises TimeoutError,
\* the executor returns a failure result
NodeTimeout(t) ==
    /\ ntasks[t].pc = "waiting"
    /\ ntasks[t].future = "pending"
    /\ state' = [state EXCEPT !.node_states[ntasks[t].node] = FAILED]
    /\ events' = emit(events, Event("node.failed", ntasks[t].node))
    /\ ntasks' = [ntasks EXCEPT ![t].pc = "emitted", ![t].success = FALSE,
                                ![t].future = "cancelled"]
    /\ UNCHANGED <<wf, ctx, wfTask, tasks, sleeps, cancels, inputs>>

\* _execute_node returns: the task is done and holds its result
NodeReturn(t) ==
    /\ ntasks[t].pc = "emitted"
    /\ ntasks' = SetPc(t, "done")
    /\ UNCHANGED <<wf, ctx, state, events, wfTask, tasks, sleeps, cancels, inputs>>

\* ------------------------------------------------------ control surface
\* provide_user_input: the future stored for the node is looked up (ValueError
\* when there is none); set_result raises InvalidStateError on a future that
\* is already resolved or cancelled, otherwise user.input_received is emitted.
\* Neither the status of the execution nor the node's place in the frontier is
\* looked at.
provide_user_input(n) ==
    /\ inputs < MaxInputs
    /\ inputs' = inputs + 1
    /\ LET future == ctx.pending_user_inputs[n]
       IN IF future # NoTask /\ ntasks[future].future = "pending"
          THEN /\ ntasks' = [ntasks EXCEPT ![future].future = "resolved"]
               /\ events' = emit(events, Event("user.input_received", n))
          ELSE UNCHANGED <<ntasks, events>>
    /\ UNCHANGED <<wf, ctx, state, wfTask, tasks, sleeps, cancels>>

\* cancel_execution: the scheduler task is cancelled (it gets CancelledError at
\* the await it is suspended in and ends; its node tasks are not cancelled)
cancel_execution ==
    /\ cancels < MaxCancels
    /\ wfTask # "created"
    /\ cancels' = cancels + 1
    /\ wfTask' = IF wfTask = "done" THEN "done" ELSE "cancelled"
    /\ state' = [state EXCEPT !.status = FAILED,
                              !.error = "Cancelled by user",
                              !.end_time = TRUE]
    /\ events' = emit(events, Event("workflow.cancelled", NoNode))
    /\ UNCHANGED <<wf, ctx, tasks, ntasks, sleeps, inputs>>

Next ==
    \/ SchedulerStart /\ UNCHANGED notEngine
    \/ SchedulerWake /\ UNCHANGED notEngine
    \/ SchedulerSleepWake /\ UNCHANGED notEngine
    \/ \E t \in DOMAIN ntasks : NodeStart(t) /\ UNCHANGED notEngine
    \/ \E t \in DOMAIN ntasks : NodeExecute(t) /\ UNCHANGED notEngine
    \/ \E t \in DOMAIN ntasks : NodeRequestInput(t) /\ UNCHANGED notEngine
    \/ \E t \in DOMAIN ntasks : NodeInputArrived(t) /\ UNCHANGED notEngine
    \/ \E t \in DOMAIN ntasks : NodeTimeout(t) /\ UNCHANGED notEngine
    \/ \E t \in DOMAIN ntasks : NodeReturn(t) /\ UNCHANGED notEngine
    \/ \E n \in Nodes : provide_user_input(n) /\ UNCHANGED notEngine
    \/ cancel_execution /\ UNCHANGED notEngine

Spec == Init /\ [][Next]_vars

\* The asyncio event loop runs every callback that is ready: the scheduler task
\* and the node tasks are resumed whenever the thing they await is done, and a
\* waiting user_input node is released by its timeout.  Client calls
\* (cancel_execution, provide_user_input) are not forced to happen.
Fairness ==
    /\ WF_vars(SchedulerStart /\ UNCHANGED notEngine)
    /\ WF_vars(SchedulerWake /\ UNCHANGED notEngine)
    /\ WF_vars(SchedulerSleepWake /\ UNCHANGED notEngine)
    /\ \A t \in 1 .. MaxTasks :
          /\ WF_vars(t \in DOMAIN ntasks /\ NodeStart(t) /\ UNCHANGED notEngine)
          /\ WF_vars(t \in DOMAIN ntasks /\ NodeExecute(t) /\ UNCHANGED notEngine)
          /\ WF_vars(t \in DOMAIN ntasks /\ NodeRequestInput(t) /\ UNCHANGED notEngine)
          /\ WF_vars(t \in DOMAIN ntasks /\ NodeInputArrived(t) /\ UNCHANGED notEngine)
          /\ WF_vars(t \in DOMAIN ntasks /\ NodeTimeout(t) /\ UNCHANGED notEngine)
          /\ WF_vars(t \in DOMAIN ntasks /\ NodeReturn(t) /\ UNCHANGED notEngine)

FairSpec == Init /\ [][Next]_vars /\ Fairness

TypeOK ==
    /\ wf \in Workflows
    /\ wfTask \in {"created", "wait", "sleep", "done", "cancelled"}
    /\ cancels \in 0 .. MaxCancels
    /\ inputs \in 0 .. MaxInputs
    /\ Len(ntasks) <= MaxTasks

\* ------------------------------------------- starting from a definition
\* the engine with no execution of its own: the state the other
\* specifications leave the scheduler in
EngineOff ==
    /\ wf = WFork
    /\ ctx = NewContext(WFork)
    /\ state = NewState
    /\ events = <<>>
    /\ wfTask = "created"
    /\ tasks = {}
    /\ ntasks = <<>>
    /\ sleeps = 0
    /\ cancels = 0
    /\ inputs = 0

\* keys and values of the workflow variables
Keys == {"x", "y"}
Values == {1, 2, 3}

\* the dicts over Keys and Values (<<>> is the empty dict)
Dicts == UNION {[K -> Values] : K \in SUBSET Keys}

\* dict.update(other) and d[k] = v: the keys of other win
Update(d, other) == other @@ d

\* a WorkflowConfig is stored in the manager; its `variables` field is the
\* dict object 1, empty or not
StartInit ==
    /\ dictHeap \in {<<d>> : d \in {<<>>, [k \in {"x"} |-> 1]}}
    /\ ctxVariables = <<>>
    /\ EngineOff
    /\ RegOff
    /\ BusOff
    /\ LookOff
    /\ WsOff
    /\ NodeOff

\* start_workflow_by_name -> start_workflow: get_workflow returns the stored
\* object, WorkflowExecutionContext.__init__ keeps it and takes
\* `workflow.variables or {}` as context.variables (a new dict only when the
\* stored one is empty), then initial_data is merged into context.variables
start_workflow(initial_data) ==
    /\ Len(ctxVariables) < MaxExecutions
    /\ LET stored == dictHeap[1]
           ref    == IF stored # <<>> THEN 1 ELSE Len(dictHeap) + 1
           heap1  == IF stored # <<>> THEN dictHeap ELSE Append(dictHeap, <<>>)
       IN /\ dictHeap' = IF initial_data # <<>>
                         THEN [heap1 EXCEPT ![ref] = Update(@, initial_data)]
                         ELSE heap1
          /\ ctxVariables' = Append(ctxVariables, ref)

\* a node executor of execution e writes a workflow variable
\* (context.variables[...] = output, context.variables.update(mapped_output))
NodeWrite(e, k, v) ==
    /\ dictHeap' = [dictHeap EXCEPT ![ctxVariables[e]] = Update(@, [i \in {k} |-> v])]
    /\ UNCHANGED ctxVariables

StartNext ==
    \/ \E initial_data \in Dicts : start_workflow(initial_data) /\ UNCHANGED notStart
    \/ \E e \in DOMAIN ctxVariables, k \in Keys, v \in Values :
          NodeWrite(e, k, v) /\ UNCHANGED notStart

StartSpec == StartInit /\ [][StartNext]_vars

\* ------------------------------------------------------ Workflow.link
\* the value None of an unset field
None == -1

\* a field that is unset, a list of slot names or a dict over the slot names
NoInput == [kind |-> "none", a |-> None, b |-> None]
ListInput == [kind |-> "list", a |-> None, b |-> None]

\* a native value node (field value, property output) and a merge node (field
\* input, role MULTI_INPUT, given as the list ["a", "b"])
IntegerNode(v) == [type |-> "native_integer", value |-> v, input |-> NoInput]
MergeNode == [type |-> "merge_node", value |-> None, input |-> ListInput]
\* a data source node, whose tag in the node union is base_data_node
DataNode == [type |-> "base_data_node", value |-> None, input |-> NoInput]

\* the keys of _NODE_TYPES, the node kind registry, among the tags used here
\* (the data source kind is filed under "data")
NODE_TYPES == {"native_integer", "merge_node", "data"}

\* create_node: the class a node is built with
create_node(node) == IF node.type \in NODE_TYPES THEN node.type ELSE "WFBaseType"

\* an edge; a slot "base.part" is held as its split(".") result
Edge(source, target, source_slot, target_slot) ==
    [source |-> source, target |-> target,
     source_slot |-> source_slot, target_slot |-> target_slot]

\* a Workflow object: info.name ("" when there is none), info.description,
\* nodes and edges (node indexes count from 0)
WorkflowValue(name, nodes, edges) ==
    [name |-> name, description |-> "", nodes |-> nodes, edges |-> edges]

Chain3 == <<IntegerNode(1), IntegerNode(2), IntegerNode(3)>>
\* 0.output -> 1.value, 1.output -> 2.value, the edges listed along the chain
WLinkChain ==
    WorkflowValue("", Chain3, <<Edge(0, 1, <<"output">>, <<"value">>),
                                Edge(1, 2, <<"output">>, <<"value">>)>>)
\* the same chain with its edges listed from the end
WLinkChainRev ==
    WorkflowValue("", Chain3, <<Edge(1, 2, <<"output">>, <<"value">>),
                                Edge(0, 1, <<"output">>, <<"value">>)>>)
\* two values wired into the slots a and b of a merge node, named "a"
WLinkMerge ==
    WorkflowValue("a", <<IntegerNode(1), IntegerNode(2), MergeNode>>,
                  <<Edge(0, 2, <<"output">>, <<"input", "a">>),
                    Edge(1, 2, <<"output">>, <<"input", "b">>)>>)
\* an edge whose target index is not a node
WLinkBad ==
    WorkflowValue("", <<IntegerNode(1)>>, <<Edge(0, 5, <<"output">>, <<"value">>)>>)
\* an edge whose target index is negative
WLinkNegative ==
    WorkflowValue("", <<IntegerNode(1), IntegerNode(2)>>,
                  <<Edge(0, -1, <<"output">>, <<"value">>)>>)
\* a single data source node
WLinkData == WorkflowValue("", <<DataNode>>, <<>>)
\* what create builds
WEmpty(name) == WorkflowValue(name, <<>>, <<>>)

ClientWorkflows ==
    {WLinkChain, WLinkChainRev, WLinkMerge, WLinkBad, WLinkNegative, WLinkData}

\* link, lines 691-698: a MULTI_INPUT / MULTI_OUTPUT field holding a list
\* becomes a dict with the value None under every listed key
RemapMulti(nodes) ==
    [i \in DOMAIN nodes |->
        IF nodes[i].input.kind = "list"
        THEN [nodes[i] EXCEPT !.input = [kind |-> "dict", a |-> None, b |-> None]]
        ELSE nodes[i]]

\* getattr(source_node, src_base) for the slots used here: the property output
\* of a native node returns its value
GetSlot(node, slot) ==
    IF slot[1] \in {"output", "value"} THEN node.value ELSE node.input

\* link, lines 709-714: the value is stored under the key of a dict field or
\* as the field itself
SetSlot(node, slot, v) ==
    IF Len(slot) = 2
    THEN IF slot[2] = "a" THEN [node EXCEPT !.input.a = v] ELSE [node EXCEPT !.input.b = v]
    ELSE [node EXCEPT !.value = v]

\* self.nodes[i]: a list index counts from 0, a negative one from the end
\* (position in the sequence, which counts from 1)
Position(nodes, i) == IF i < 0 THEN Len(nodes) + i + 1 ELSE i + 1

\* self.nodes[i] raises IndexError
OutOfRange(nodes, i) == i >= Len(nodes) \/ i < 0 - Len(nodes)

\* link, lines 700-714: the edges are applied one after the other, each reading
\* the source node as the edges before it left it
RECURSIVE ApplyEdges(_, _)
ApplyEdges(nodes, edges) ==
    IF edges = <<>> THEN nodes
    ELSE LET e == Head(edges)
             v == GetSlot(nodes[Position(nodes, e.source)], e.source_slot)
         IN ApplyEdges([nodes EXCEPT ![Position(nodes, e.target)] =
                                         SetSlot(@, e.target_slot, v)],
                       Tail(edges))

\* link raises: an edge names a node index outside the list (IndexError), or
\* a keyed slot of a field that is not a dict (TypeError)
LinkFails(w) ==
    \E i \in DOMAIN w.edges :
        LET e == w.edges[i]
        IN \/ OutOfRange(w.nodes, e.source)
           \/ OutOfRange(w.nodes, e.target)
           \/ /\ Len(e.target_slot) = 2
              /\ RemapMulti(w.nodes)[Position(w.nodes, e.target)].input.kind # "dict"

\* Workflow.link
link(w) == [w EXCEPT !.nodes = ApplyEdges(RemapMulti(w.nodes), w.edges)]

\* --------------------------------------------------- WorkflowManager
\* the names the client passes; "" stands for a missing name (not name)
ArgNames == {"a", "workflow_1"}
OptNames == ArgNames \cup {""}

\* f"workflow_{self._current_id}"
AutoName(n) == "workflow_" \o ToString(n)

\* _make_workflow: the record kept per name (src/app_wf keeps the workflow alone)
make_workflow(o) == [workflow |-> o, backend |-> FALSE]

\* the client now holds object o, which it got by origin
AddOrigin(h, o, origin) ==
    IF o \in DOMAIN h THEN [h EXCEPT ![o] = @ \cup {origin}] ELSE (o :> {origin}) @@ h

Call(op, name, obj, ok, retName, retObj, auto) ==
    [op |-> op, name |-> name, obj |-> obj, ok |-> ok,
     retName |-> retName, retObj |-> retObj, auto |-> auto]

\* the event bus of the manager records the event
Emit(type) == regEvents' = Append(regEvents, type)

\* a manager of either class with the client holding one workflow it built
RegInit ==
    /\ variant \in {"app", "app_wf"}
    /\ current_id = 0
    /\ workflows = <<>>
    /\ heap \in {<<w>> : w \in ClientWorkflows}
    /\ held = (1 :> {"client"})
    /\ regEvents = <<>>
    /\ lastCall = NoCall
    /\ assigned = {}
    /\ calls = 0
    /\ EngineOff
    /\ StartOff
    /\ BusOff
    /\ LookOff
    /\ WsOff
    /\ NodeOff

clear ==
    /\ calls < MaxCalls
    /\ calls' = calls + 1
    /\ current_id' = 0
    /\ workflows' = <<>>
    /\ Emit("MANAGER_CLEARED")
    /\ lastCall' = Call("clear", "", 0, TRUE, "", 0, FALSE)
    /\ UNCHANGED <<variant, heap, held, assigned>>

\* the object stored is the object returned
create(name) ==
    /\ calls < MaxCalls
    /\ calls' = calls + 1
    /\ LET o == Len(heap) + 1
       IN /\ heap' = Append(heap, WEmpty(name))
          /\ workflows' = (name :> make_workflow(o)) @@ workflows
          /\ held' = AddOrigin(held, o, "create")
          /\ lastCall' = Call("create", name, 0, TRUE, "", o, FALSE)
    /\ Emit("MANAGER_CREATED")
    /\ UNCHANGED <<variant, current_id, assigned>>

\* src/app: the copy is linked and stored; the counter moves before link can raise
add_app(o, name) ==
    LET w    == heap[o]
        auto == name = "" /\ w.name = ""
        id   == current_id + 1
        key  == IF name # "" THEN name ELSE IF w.name # "" THEN w.name ELSE AutoName(id)
        copy == Len(heap) + 1
    IN /\ current_id' = IF auto THEN id ELSE current_id
       /\ IF LinkFails(w)
          THEN /\ lastCall' = Call("add", name, o, FALSE, "", 0, auto)
               /\ UNCHANGED <<workflows, heap, held, regEvents, assigned>>
          ELSE /\ heap' = Append(heap, link(w))
               /\ workflows' = (key :> make_workflow(copy)) @@ workflows
               /\ held' = AddOrigin(held, o, "added")
               /\ Emit("MANAGER_ADDED")
               /\ assigned' = IF auto THEN assigned \cup {id} ELSE assigned
               /\ lastCall' = Call("add", name, o, TRUE, key, 0, auto)

\* src/app_wf: Workflow(workflow) passes a positional argument to a pydantic
\* model and raises TypeError before anything is changed
add_app_wf(o, name) ==
    /\ lastCall' = Call("add", name, o, FALSE, "", 0, FALSE)
    /\ UNCHANGED <<current_id, workflows, heap, held, regEvents, assigned>>

add(o, name) ==
    /\ calls < MaxCalls
    /\ calls' = calls + 1
    /\ IF variant = "app" THEN add_app(o, name) ELSE add_app_wf(o, name)
    /\ UNCHANGED variant

\* a remove that deletes every key whatever the name
RemovedNamesAll(ws, name) == DOMAIN ws

\* the keys remove deletes
RemovedNames(ws, name) == IF name = "" THEN DOMAIN ws ELSE {name} \cap DOMAIN ws

remove(name) ==
    /\ calls < MaxCalls
    /\ calls' = calls + 1
    /\ LET names == RemovedNames(workflows, name)
           found == name = "" \/ name \in DOMAIN workflows
       IN /\ workflows' = IF found THEN [n \in DOMAIN workflows \ names |-> workflows[n]]
                                   ELSE workflows
          /\ lastCall' = Call("remove", name, 0, found, "", 0, FALSE)
          /\ IF found /\ (variant = "app" \/ name # "")
             THEN Emit("MANAGER_REMOVED")
             ELSE UNCHANGED regEvents
    /\ UNCHANGED <<variant, current_id, heap, held, assigned>>

\* src/app: a deep copy of the stored workflow (of all of them for no name,
\* which the client drops here); nothing for an absent name
get_app(name) ==
    IF name = ""
    THEN /\ Emit("MANAGER_GOT")
         /\ lastCall' = Call("get", name, 0, TRUE, "", 0, FALSE)
         /\ UNCHANGED <<heap, held>>
    ELSE IF name \in DOMAIN workflows
    THEN LET result == Len(heap) + 1
         IN /\ heap' = Append(heap, heap[workflows[name].workflow])
            /\ held' = AddOrigin(held, result, "get")
            /\ Emit("MANAGER_GOT")
            /\ lastCall' = Call("get", name, 0, TRUE, "", result, FALSE)
    ELSE /\ lastCall' = Call("get", name, 0, FALSE, "", 0, FALSE)
         /\ UNCHANGED <<heap, held, regEvents>>

\* src/app_wf: the event first, then self._workflows.get(name)
get_app_wf(name) ==
    /\ Emit("MANAGER_GOT")
    /\ IF name \in DOMAIN workflows
       THEN /\ held' = AddOrigin(held, workflows[name].workflow, "get")
            /\ lastCall' = Call("get", name, 0, TRUE, "", workflows[name].workflow, FALSE)
       ELSE /\ lastCall' = Call("get", name, 0, FALSE, "", 0, FALSE)
            /\ UNCHANGED held
    /\ UNCHANGED heap

get(name) ==
    /\ calls < MaxCalls
    /\ calls' = calls + 1
    /\ IF variant = "app" THEN get_app(name) ELSE get_app_wf(name)
    /\ UNCHANGED <<variant, current_id, workflows, assigned>>

\* src/app only: the backend is built once
impl(name) ==
    /\ variant = "app"
    /\ calls < MaxCalls
    /\ calls' = calls + 1
    /\ IF name \notin DOMAIN workflows
       THEN /\ lastCall' = Call("impl", name, 0, FALSE, "", 0, FALSE)
            /\ UNCHANGED <<workflows, regEvents>>
       ELSE IF workflows[name].backend
       THEN /\ lastCall' = Call("impl", name, 0, TRUE, name, 0, FALSE)
            /\ UNCHANGED <<workflows, regEvents>>
       ELSE /\ workflows' = [workflows EXCEPT ![name].backend = TRUE]
            /\ Emit("MANAGER_IMPL")
            /\ lastCall' = Call("impl", name, 0, TRUE, name, 0, FALSE)
    /\ UNCHANGED <<variant, current_id, heap, held, assigned>>

list ==
    /\ calls < MaxCalls
    /\ calls' = calls + 1
    /\ Emit("MANAGER_LISTED")
    /\ lastCall' = Call("list", "", 0, TRUE, "", 0, FALSE)
    /\ UNCHANGED <<variant, current_id, workflows, heap, held, assigned>>

\* the client changes a workflow object it holds
Mutate(o) ==
    /\ heap[o].description = ""
    /\ heap' = [heap EXCEPT ![o].description = "edited"]
    /\ lastCall' = Call("mutate", "", o, TRUE, "", 0, FALSE)
    /\ UNCHANGED <<variant, current_id, workflows, held, regEvents, assigned, calls>>

RegNext ==
    \/ clear /\ UNCHANGED notReg
    \/ \E name \in ArgNames : create(name) /\ UNCHANGED notReg
    \/ \E o \in DOMAIN held, name \in OptNames : add(o, name) /\ UNCHANGED notReg
    \/ \E name \in OptNames : remove(name) /\ UNCHANGED notReg
    \/ \E name \in OptNames : get(name) /\ UNCHANGED notReg
    \/ \E name \in ArgNames : impl(name) /\ UNCHANGED notReg
    \/ list /\ UNCHANGED notReg
    \/ \E o \in DOMAIN held : Mutate(o) /\ UNCHANGED notReg

RegSpec == RegInit /\ [][RegNext]_vars

\* what get would return for every name, and what list would return
GetView == [n \in DOMAIN workflows |-> heap[workflows[n].workflow]]
ListView == DOMAIN workflows

\* ---------------------------------------------------------- EventBus
NodeTasks == 1 .. MaxNodeTasks
Handlers == {"h1", "h2"}
\* the handlers whose call may raise an Exception
Raising == {"h1"}
\* the topics handlers subscribe to: an event type and the wildcard
Topics == {"NODE_START", "*"}

\* self.listeners.get(topic, []) with every handler tagged by its topic
ListenersOf(topic) ==
    [i \in DOMAIN listeners[topic] |-> [topic |-> topic, handler |-> listeners[topic][i]]]

\* emit, line 44: the handlers of the type followed by those of "*"
HandlersFor(type) ==
    (IF type \in DOMAIN listeners THEN ListenersOf(type) ELSE <<>>) \o ListenersOf("*")

\* a task that is not inside emit
Idle(phase) ==
    [pc |-> "ready", phase |-> phase, event |-> <<>>, handlers |-> <<>>, next |-> 1,
     called |-> <<>>, raised |-> FALSE]

\* a new bus and the node tasks of the workflow, none of them started
BusInit ==
    /\ listeners = [topic \in Topics |-> <<>>]
    /\ event_history = <<>>
    /\ emitters = [t \in NodeTasks |-> Idle(0)]
    /\ clock = 0
    /\ EngineOff
    /\ StartOff
    /\ RegOff
    /\ LookOff
    /\ WsOff
    /\ NodeOff

subscribe(topic, h) ==
    /\ Len(listeners["NODE_START"]) + Len(listeners["*"]) < MaxSubs
    /\ listeners' = [listeners EXCEPT ![topic] = Append(@, h)]
    /\ UNCHANGED <<event_history, emitters, clock>>

unsubscribe(topic, h) ==
    /\ \E i \in DOMAIN listeners[topic] : listeners[topic][i] = h
    /\ listeners' = [listeners EXCEPT ![topic] = RemoveFirst(@, h)]
    /\ UNCHANGED <<event_history, emitters, clock>>

\* time passes
Tick ==
    /\ clock < MaxClock
    /\ clock' = clock + 1
    /\ UNCHANGED <<listeners, event_history, emitters>>

\* a history that takes the new event in front
RecordedFirst(history, event) == <<event>> \o history

\* emit, line 41: self.event_history.append(event)
Recorded(history, event) == Append(history, event)

\* _execute_node builds the event with timestamp = time.time() and calls emit,
\* which appends it to the history and takes the list of handlers, all before
\* the first await; the first event of a task is NODE_START, the second
\* NODE_END (NODE_ERROR takes the same path when the executor raised)
EmitBegin(t) ==
    /\ emitters[t].pc = "ready"
    /\ emitters[t].phase < 2
    /\ LET type  == IF emitters[t].phase = 0 THEN "NODE_START" ELSE "NODE_END"
           event == [id |-> <<t, emitters[t].phase>>, type |-> type,
                     source_node_id |-> t, timestamp |-> clock]
       IN /\ event_history' = Recorded(event_history, event)
          /\ emitters' = [emitters EXCEPT ![t] =
                            [pc |-> "delivering", phase |-> @.phase, event |-> event.id,
                             handlers |-> HandlersFor(type), next |-> 1,
                             called |-> <<>>, raised |-> FALSE]]
    /\ UNCHANGED <<listeners, clock>>

\* a handler error that ends the delivery of the event
NextHandlerAbort(handlers, i, raised) == IF raised THEN Len(handlers) + 1 ELSE i + 1

\* emit, lines 46-53: the try is inside the loop, so the loop goes on to the
\* next handler whether the call raised or not
NextHandler(handlers, i, raised) == i + 1

\* emit calls (and awaits) the next handler of its list
Deliver(t, raised) ==
    /\ emitters[t].pc = "delivering"
    /\ emitters[t].next <= Len(emitters[t].handlers)
    /\ LET h == emitters[t].handlers[emitters[t].next]
       IN /\ raised => h.handler \in Raising
          /\ emitters' = [emitters EXCEPT ![t].next =
                            NextHandler(emitters[t].handlers, @, raised),
                                          ![t].called = Append(@, h.handler),
                                          ![t].raised = @ \/ raised]
    /\ UNCHANGED <<listeners, event_history, clock>>

\* emit returns to _execute_node
EmitReturn(t) ==
    /\ emitters[t].pc = "delivering"
    /\ emitters[t].next > Len(emitters[t].handlers)
    /\ emitters' = [emitters EXCEPT ![t] = Idle(@.phase + 1)]
    /\ UNCHANGED <<listeners, event_history, clock>>

clear_history ==
    /\ event_history # <<>>
    /\ event_history' = <<>>
    /\ UNCHANGED <<listeners, emitters, clock>>

\* the node tasks before t have returned: _execute_nodes runs one node per
\* pass of its loop when the workflow is a chain
Serial(t) == \A u \in NodeTasks : u < t => emitters[u].phase = 2

BusNext ==
    \/ \E topic \in Topics, h \in Handlers : subscribe(topic, h) /\ UNCHANGED notBus
    \/ \E topic \in Topics, h \in Handlers : unsubscribe(topic, h) /\ UNCHANGED notBus
    \/ \E t \in NodeTasks : Serial(t) /\ EmitBegin(t) /\ UNCHANGED notBus
    \/ \E t \in NodeTasks, raised \in BOOLEAN : Deliver(t, raised) /\ UNCHANGED notBus
    \/ \E t \in NodeTasks : EmitReturn(t) /\ UNCHANGED notBus
    \/ clear_history /\ UNCHANGED notBus

BusSpec == BusInit /\ [][BusNext]_vars

\* the subscriptions a run of the executor starts with
ExecListeners ==
    {[topic \in Topics |-> <<>>],
     [topic \in Topics |-> IF topic = "*" THEN <<"h2">> ELSE <<>>],
     [topic \in Topics |-> IF topic = "*" THEN <<"h2">> ELSE <<"h1">>]}

\* the node tasks of one asyncio.gather, none of them started
ExecInit ==
    /\ listeners \in ExecListeners
    /\ event_history = <<>>
    /\ emitters = [t \in NodeTasks |-> Idle(0)]
    /\ clock = 0
    /\ EngineOff
    /\ StartOff
    /\ RegOff
    /\ LookOff
    /\ WsOff
    /\ NodeOff

\* the node tasks run concurrently: every await inside emit lets another run
ExecNext ==
    \/ Tick /\ UNCHANGED notBus
    \/ \E t \in NodeTasks : EmitBegin(t) /\ UNCHANGED notBus
    \/ \E t \in NodeTasks, raised \in BOOLEAN : Deliver(t, raised) /\ UNCHANGED notBus
    \/ \E t \in NodeTasks : EmitReturn(t) /\ UNCHANGED notBus

ExecSpec == ExecInit /\ [][ExecNext]_vars

\* ------------------------------------------- WorkflowEngine: lookups
\* the names a client starts by: one the workflow manager holds, one it does not
StartNames == {"stored", "missing"}
\* an execution id the engine never issued
UnknownId == 0

Reply(op, known, result) == [op |-> op, known |-> known, result |-> result]

\* one more event type in the log of the engine
Logged(type) == engineLog' = Append(engineLog, type)

LookInit ==
    /\ executions = <<>>
    /\ engineLog = <<>>
    /\ reply = NoReply
    /\ requests = 0
    /\ EngineOff
    /\ StartOff
    /\ RegOff
    /\ BusOff
    /\ WsOff
    /\ NodeOff

\* start_workflow_by_name: ValueError("Workflow not found") for a name the
\* manager does not hold; else start_workflow files the execution under a new
\* id and emits workflow.started (future: whether a user_input node of the
\* execution is waiting for a value)
StartByName(name, future) ==
    /\ requests < MaxRequests
    /\ requests' = requests + 1
    /\ IF name = "missing"
       THEN /\ reply' = Reply("start", FALSE, "not_found")
            /\ UNCHANGED <<executions, engineLog>>
       ELSE /\ Len(executions) < MaxExecutions
            /\ executions' = Append(executions,
                                    [status |-> RUNNING, error |-> "", future |-> future])
            /\ Logged("workflow.started")
            /\ reply' = Reply("start", TRUE, "ok")

\* get_execution_state returns None for an unknown id, which the status
\* handler turns into 404 "Execution not found"
GetStatus(id) ==
    /\ requests < MaxRequests
    /\ requests' = requests + 1
    /\ reply' = IF id \in DOMAIN executions THEN Reply("status", TRUE, "ok")
                                            ELSE Reply("status", FALSE, "not_found")
    /\ UNCHANGED <<executions, engineLog>>

\* cancel_execution: everything is under `if execution_id in
\* self.execution_tasks`, so for an unknown id the call returns normally and
\* the cancel handler answers {"status": "cancelled"}
CancelById(id) ==
    /\ requests < MaxRequests
    /\ requests' = requests + 1
    /\ IF id \in DOMAIN executions
       THEN /\ executions' = [executions EXCEPT ![id].status = FAILED,
                                                ![id].error = "Cancelled by user"]
            /\ Logged("workflow.cancelled")
            /\ reply' = Reply("cancel", TRUE, "ok")
       ELSE /\ reply' = Reply("cancel", FALSE, "ok")
            /\ UNCHANGED <<executions, engineLog>>

\* provide_user_input: ValueError("Execution not found") for an unknown id,
\* ValueError("No pending input") when no future is stored for the node;
\* set_result raises InvalidStateError on a future that has its result
InputById(id) ==
    /\ requests < MaxRequests
    /\ requests' = requests + 1
    /\ IF id \notin DOMAIN executions
       THEN /\ reply' = Reply("input", FALSE, "not_found")
            /\ UNCHANGED <<executions, engineLog>>
       ELSE IF executions[id].future = "none"
       THEN /\ reply' = Reply("input", TRUE, "no_pending_input")
            /\ UNCHANGED <<executions, engineLog>>
       ELSE IF executions[id].future = "resolved"
       THEN /\ reply' = Reply("input", TRUE, "invalid_state")
            /\ UNCHANGED <<executions, engineLog>>
       ELSE /\ executions' = [executions EXCEPT ![id].future = "resolved"]
            /\ Logged("user.input_received")
            /\ reply' = Reply("input", TRUE, "ok")

LookNext ==
    \/ \E name \in StartNames, future \in {"none", "pending"} :
          StartByName(name, future) /\ UNCHANGED notLook
    \/ \E id \in DOMAIN executions \cup {UnknownId} : GetStatus(id) /\ UNCHANGED notLook
    \/ \E id \in DOMAIN executions \cup {UnknownId} : CancelById(id) /\ UNCHANGED notLook
    \/ \E id \in DOMAIN executions \cup {UnknownId} : InputById(id) /\ UNCHANGED notLook

LookSpec == LookInit /\ [][LookNext]_vars

\* ---------------------------------------------------------------- views
pending_nodes == ctx.pending_nodes
ready_nodes == ctx.ready_nodes
running_nodes == ctx.running_nodes
completed_nodes == ctx.completed_nodes
failed_nodes == ctx.failed_nodes

NodeEventTypes == {"node.started", "node.completed", "node.failed"}
TerminalEventTypes == {"workflow.completed", "workflow.failed", "workflow.cancelled"}

\* positions of an event in the emitted sequence
Positions(ev) == {i \in DOMAIN events : events[i] = ev}
Count(ev) == Cardinality(Positions(ev))

\* C1: every execution eventually reaches a terminal phase (every finished node
\* task is eventually processed, so no node stays in running forever).
C1_EveryExecutionTerminates == <>(state.status # RUNNING)

\* C2: within one execution node.started is emitted at most once per node.
C2_StartedAtMostOnce ==
    \A n \in Nodes : Count(Event("node.started", n)) <= 1

\* C3: pending, ready, running, completed and failed are pairwise disjoint and
\* their union is the whole node index set.
C3_FrontierPartition ==
    LET sets == <<pending_nodes, ready_nodes, running_nodes, completed_nodes, failed_nodes>>
    IN /\ \A i, j \in 1 .. 5 : i # j => sets[i] \cap sets[j] = {}
       /\ UNION {sets[i] : i \in 1 .. 5} = Nodes

\* C4: a node is ready or running only when all its dependencies are completed,
\* and no node is left in pending once its last outstanding dependency has
\* completed.
C4_ReadyIffDepsCompleted ==
    /\ \A n \in ready_nodes \cup running_nodes :
          node_dependencies(wf, n) \subseteq completed_nodes
    /\ \A n \in pending_nodes :
          ~(node_dependencies(wf, n) \subseteq completed_nodes)

\* the position of the first occurrence of an event (0 when it was not emitted)
First(ev) ==
    IF Positions(ev) = {} THEN 0
    ELSE CHOOSE i \in Positions(ev) : \A j \in Positions(ev) : i <= j

\* C5: for every edge (s, t), if both s and t complete then node.completed of s
\* is emitted before node.started of t.
C5_CompletedBeforeDependentStarts ==
    \A e \in wf.edges :
        (e[1] \in completed_nodes /\ e[2] \in completed_nodes)
            => First(Event("node.completed", e[1])) < First(Event("node.started", e[2]))

\* the nodes reachable from n along edges (n excluded unless on a cycle)
RECURSIVE ReachFrom(_, _)
ReachFrom(front, seen) ==
    LET next == UNION {node_dependents(wf, m) : m \in front} \ seen
    IN IF next = {} THEN seen ELSE ReachFrom(next, seen \cup next)

Descendants(n) == ReachFrom({n}, {})

\* the nodes on or behind a dependency cycle: no scheduler can ever run them
CycleBound == UNION {Descendants(k) : k \in {m \in Nodes : m \in Descendants(m)}}

\* C6: a failed node is in failed only, each of its direct or transitive
\* dependents stays in pending and is never started, and when the scheduler
\* ends on its own every node with no path from a failed node (and not bound to
\* a dependency cycle) has been executed to completion or failure.
C6_FailureDoesNotCascade ==
    \A n \in failed_nodes :
        /\ n \notin pending_nodes \cup ready_nodes \cup running_nodes \cup completed_nodes
        /\ \A d \in Descendants(n) \ {n} :
              /\ d \in pending_nodes
              /\ Count(Event("node.started", d)) = 0
        /\ (wfTask = "done" /\ cancels = 0) =>
              \A m \in Nodes \ (CycleBound \cup UNION {Descendants(k) : k \in failed_nodes}) :
                  m \in completed_nodes \cup failed_nodes

DeadlockReasons ==
    {"deadlock / failed dependency", "Workflow deadlock detected - no nodes can execute"}

\* C7: a scheduling loop that ends with ready and running empty and pending
\* non-empty ends in phase failed with a deadlock reason, and phase completed is
\* reached only with pending and failed empty.
C7_DeadlockIsFailure ==
    (wfTask = "done" /\ cancels = 0) =>
        /\ (ready_nodes = {} /\ running_nodes = {} /\ pending_nodes # {})
              => (state.status = FAILED /\ state.error \in DeadlockReasons)
        /\ state.status = COMPLETED => (pending_nodes = {} /\ failed_nodes = {})

TerminalPositions == {i \in DOMAIN events : events[i].type \in TerminalEventTypes}

\* C8: an execution in a terminal phase has emitted exactly one terminal
\* workflow event, and its type is the one of the phase.
C8_OneTerminalEvent ==
    state.status # RUNNING =>
        /\ Cardinality(TerminalPositions) = 1
        /\ \A i \in TerminalPositions : events[i].type = "workflow." \o state.status

\* C9: workflow.started precedes every per-node event and no per-node event
\* follows the terminal workflow event.
C9_NodeEventsInsideLifecycle ==
    /\ events[1].type = "workflow.started"
    /\ \A i \in DOMAIN events : events[i].type \in NodeEventTypes => i > 1
    /\ \A i, j \in DOMAIN events :
          (events[i].type \in TerminalEventTypes /\ i < j)
              => events[j].type \notin NodeEventTypes

\* C10: cancel on a running execution leaves it in phase cancelled with a
\* workflow.cancelled event emitted.
C10_CancelGivesCancelledPhase ==
    [][(cancels' = cancels + 1 /\ state.status = RUNNING)
          => /\ state'.status = "cancelled"
             /\ Count(Event("workflow.cancelled", NoNode))' >= 1]_vars

\* a step that is one call of cancel_execution
CancelCall == cancels' = cancels + 1

\* C11: cancellation is idempotent: a cancel call on an execution that was
\* already cancelled changes no field of the execution state and emits no
\* further event.
C11_CancelIdempotent ==
    [][(CancelCall /\ cancels >= 1) => (state' = state /\ events' = events)]_vars

\* C12: cancel on an execution that has already completed or failed leaves its
\* phase, error reason and end time unchanged and emits no event.
C12_CancelAfterTerminalIsNoOp ==
    [][(CancelCall /\ cancels = 0 /\ wfTask = "done")
          => /\ state'.status = state.status
             /\ state'.error = state.error
             /\ state'.end_time = state.end_time
             /\ events' = events]_vars

\* the nodes whose stored user-input future is not yet resolved or cancelled
PendingPromises ==
    {n \in Nodes : /\ ctx.pending_user_inputs[n] # NoTask
                   /\ ntasks[ctx.pending_user_inputs[n]].future = "pending"}

ReceivedCount == Cardinality({i \in DOMAIN events : events[i].type = "user.input_received"})

\* C13: cancelling an execution resolves every pending user-input promise (none
\* is pending once workflow.cancelled is emitted), and no user.input_received
\* event is emitted after the cancellation.
C13_CancelResolvesPromises ==
    [][/\ (CancelCall /\ state.status = RUNNING) => PendingPromises' = {}
       /\ cancels >= 1 => ReceivedCount' = ReceivedCount]_vars

StartedCount == Cardinality({i \in DOMAIN events : events[i].type = "node.started"})

\* C14: once cancel has been called no node moves from ready to running and no
\* node.started event is emitted.
C14_NoAdmissionAfterCancel ==
    [][cancels >= 1
          => /\ (ready_nodes \cap running_nodes') \subseteq running_nodes
             /\ StartedCount' = StartedCount]_vars

\* a step that is one call of provide_user_input
InputCall == inputs' = inputs + 1

\* the nodes whose task is suspended in wait_for on the stored future
WaitingNodes == {ntasks[t].node : t \in {u \in DOMAIN ntasks : ntasks[u].pc = "waiting"}}

\* C15: provide_user_input resolves a promise and emits user.input_received
\* only for a node of a live execution (not terminal, not cancelled) whose
\* promise is pending and whose node is waiting; in every other case the call
\* emits nothing and leaves the execution unchanged.
C15_InputOnlyWhenWaiting ==
    [][InputCall =>
          \/ /\ state.status = RUNNING
             /\ \E n \in PendingPromises \cap WaitingNodes :
                   /\ events' = Append(events, Event("user.input_received", n))
                   /\ PendingPromises' = PendingPromises \ {n}
          \/ /\ events' = events
             /\ ctx' = ctx
             /\ ntasks' = ntasks
             /\ state' = state]_vars

\* the keys of the pending user-input table
InputTable == {n \in Nodes : ctx.pending_user_inputs[n] # NoTask}

\* C16: every entry of the pending user-input table belongs to exactly one
\* user_input node task that is waiting, with its node in running and the
\* execution not terminated; no entry remains after that.
C16_InputTableMatchesWaitingNodes ==
    \A n \in InputTable :
        /\ wf.type[n] = "user_input"
        /\ n \in running_nodes
        /\ state.status = RUNNING
        /\ Cardinality({t \in DOMAIN ntasks : ntasks[t].node = n /\ ntasks[t].pc = "waiting"}) = 1

node_outputs == ctx.node_outputs

\* C17: the output store holds an entry only for a node that completed
\* successfully (none for a failed or still-running node), and an entry, once
\* written, is never written again.
C17_OutputsWrittenOnce ==
    [][/\ \A n \in DOMAIN node_outputs' :
             /\ n \in completed_nodes'
             /\ n \notin failed_nodes' \cup running_nodes'
       /\ \A n \in DOMAIN node_outputs :
             /\ n \in DOMAIN node_outputs'
             /\ node_outputs'[n] = node_outputs[n]]_vars

\* the nodes that cannot run: behind a failed node or bound to a dependency cycle
Unreachable == CycleBound \cup UNION {Descendants(k) \ {k} : k \in failed_nodes}

\* C18: when the scheduler ends on its own (no cancel), every node that could
\* run is in completed or in failed, and no node is in both.
C18_TerminalCoversEveryNode ==
    (wfTask = "done" /\ cancels = 0) =>
        /\ \A n \in Nodes \ Unreachable : n \in completed_nodes \cup failed_nodes
        /\ completed_nodes \cap failed_nodes = {}

\* the frontier sets and the output store of the context
Frontier ==
    <<pending_nodes, ready_nodes, running_nodes, completed_nodes, failed_nodes,
      node_outputs>>

\* a step of a node task: no task is created, some task moves on, and the
\* scheduler task stays where it is
NodeTaskStep ==
    /\ Len(ntasks') = Len(ntasks)
    /\ \E t \in DOMAIN ntasks : ntasks'[t].pc # ntasks[t].pc
    /\ wfTask' = wfTask
    /\ sleeps' = sleeps

\* C19: a step of a node task changes neither the frontier sets nor the output
\* store; only the scheduler task does.
C19_OnlySchedulerChangesFrontier ==
    [][NodeTaskStep => Frontier' = Frontier]_vars

\* a scheduling pass that creates node tasks
SpawnPass == Len(ntasks') > Len(ntasks)

\* C20: a scheduling pass starts every ready node at once: after it no node is
\* left in ready, every node that was ready is in running, and each new task
\* has been created without any of them having been awaited.
C20_AllReadyStartedInOnePass ==
    [][SpawnPass =>
          /\ ready_nodes' = {}
          /\ ready_nodes \subseteq running_nodes'
          /\ tasks' = (Len(ntasks) + 1) .. Len(ntasks')
          /\ \A t \in tasks' : /\ ntasks'[t].pc = "created"
                               /\ ntasks'[t].node \in running_nodes']_vars

\* the two independent branches of WFork are both in running, each with its
\* task between node.started and its result
C20_BothBranchesRunning ==
    /\ wf = WFork
    /\ cancels = 0
    /\ {1, 2} \subseteq running_nodes
    /\ \E t1, t2 \in DOMAIN ntasks :
          /\ ntasks[t1].node = 1 /\ ntasks[t1].pc = "started"
          /\ ntasks[t2].node = 2 /\ ntasks[t2].pc = "started"

\* C21: start copies the stored definition: no start, initial_data merge or
\* node variable write changes the variables of the stored workflow, and two
\* executions never share a variables dict (nor use the stored one), so neither
\* sees the other's writes.
C21_StartCopiesDefinition ==
    [][/\ dictHeap'[1] = dictHeap[1]
       /\ \A e \in DOMAIN ctxVariables' : ctxVariables'[e] # 1
       /\ \A e1, e2 \in DOMAIN ctxVariables' :
             e1 # e2 => ctxVariables'[e1] # ctxVariables'[e2]]_vars

\* C22: get of a stored name returns a fresh object equal to the stored
\* definition and get of an absent name returns nothing; changing an object
\* that get returned, or one that was passed to add, changes nothing that a
\* later get or list returns.
C22_GetReturnsDeepCopy ==
    [][/\ lastCall'.op = "get" /\ lastCall'.name # ""
          => IF lastCall'.name \in DOMAIN workflows
             THEN /\ lastCall'.ok
                  /\ lastCall'.retObj \notin DOMAIN heap
                  /\ heap'[lastCall'.retObj] = heap[workflows[lastCall'.name].workflow]
             ELSE ~lastCall'.ok /\ lastCall'.retObj = 0
       /\ (lastCall'.op = "mutate" /\ held[lastCall'.obj] \cap {"get", "added"} # {})
          => GetView' = GetView /\ ListView' = ListView]_vars

\* C23: an add without a name and without info.name assigns workflow_N with N
\* larger than every N assigned before, whatever add, remove and clear calls
\* came in between, and the name it assigns is not the name of a stored entry.
C23_AutoNamesAreFresh ==
    [][(lastCall'.op = "add" /\ lastCall'.ok /\ lastCall'.auto)
          => /\ lastCall'.retName = AutoName(current_id')
             /\ \A n \in assigned : current_id' > n
             /\ lastCall'.retName \notin DOMAIN workflows]_vars

\* C24: adding a workflow that get returned stores the same definition that
\* the first add stored: link applied to an already linked workflow changes
\* nothing, for every node list and every order of the edges.
C24_AddGetRoundTrip ==
    [][(/\ lastCall'.op = "add" /\ lastCall'.ok
        /\ "get" \in held[lastCall'.obj]
        /\ heap[lastCall'.obj].description = "")
          => heap'[workflows'[lastCall'.retName].workflow] = heap[lastCall'.obj]]_vars

\* the registry without the entries of the names in gone
Without(ws, gone) == [n \in DOMAIN ws \ gone |-> ws[n]]

\* C25: remove of a stored name returns true and deletes that entry alone,
\* remove of an absent name returns false and changes nothing, remove without
\* a name deletes every entry; a remove repeated right after itself changes
\* nothing, and no remove touches the counter or an object.
C25_RemoveDeletesExactly ==
    [][lastCall'.op = "remove"
          => /\ IF lastCall'.name = ""
                THEN lastCall'.ok /\ workflows' = <<>>
                ELSE IF lastCall'.name \in DOMAIN workflows
                THEN lastCall'.ok /\ workflows' = Without(workflows, {lastCall'.name})
                ELSE ~lastCall'.ok /\ workflows' = workflows
             /\ (lastCall.op = "remove" /\ lastCall.name = lastCall'.name)
                   => workflows' = workflows
             /\ UNCHANGED <<current_id, heap>>]_vars

\* a stored name was removed and another entry is still stored
C25_RemovedOneOfTwo ==
    /\ lastCall.op = "remove"
    /\ lastCall.name = "a"
    /\ lastCall.ok
    /\ DOMAIN workflows = {"workflow_1"}

\* the event type of each registry operation
RegEventType(op) ==
    CASE op = "create" -> "MANAGER_CREATED"
      [] op = "add"    -> "MANAGER_ADDED"
      [] op = "get"    -> "MANAGER_GOT"
      [] op = "list"   -> "MANAGER_LISTED"
      [] op = "remove" -> "MANAGER_REMOVED"
      [] op = "clear"  -> "MANAGER_CLEARED"
      [] op = "impl"   -> "MANAGER_IMPL"

\* C26: a registry operation that succeeds emits exactly one event, of the
\* type of the operation, and one that fails (get, remove or impl of an absent
\* name, add whose link raises) emits none.
C26_OneEventPerSuccessfulCall ==
    [][calls' = calls + 1
          => IF lastCall'.ok
             THEN regEvents' = Append(regEvents, RegEventType(lastCall'.op))
             ELSE regEvents' = regEvents]_vars

\* task t enters emit, and task t leaves emit, in this step
EmitStarts(t) == emitters[t].pc = "ready" /\ emitters'[t].pc = "delivering"
EmitReturns(t) == emitters[t].pc = "delivering" /\ emitters'[t].pc = "ready"

\* the handlers subscribed to the topic
Subscribed(topic) == {listeners[topic][i] : i \in DOMAIN listeners[topic]}

\* the handlers emit has called for the event of task t, and those it is to call
Called(t) == {emitters[t].called[i] : i \in DOMAIN emitters[t].called}
ToCall(t) == {emitters[t].handlers[i].handler : i \in DOMAIN emitters[t].handlers}

\* the type of the event task t emits next
TypeOf(t) == IF emitters[t].phase = 0 THEN "NODE_START" ELSE "NODE_END"

\* C27: a handler that raises does not end the delivery: emit records the
\* event in the history, stays in its loop after the raise, and returns only
\* after every handler subscribed to the event's type or to * when the event
\* was emitted has been called with it.
C27_HandlerErrorsIsolated ==
    [][\A t \in NodeTasks :
          /\ EmitStarts(t)
                => /\ Len(event_history') = Len(event_history) + 1
                   /\ event_history'[Len(event_history')].id = emitters'[t].event
                   /\ Subscribed("*") \subseteq ToCall(t)'
                   /\ TypeOf(t) \in Topics => Subscribed(TypeOf(t)) \subseteq ToCall(t)'
          /\ (emitters[t].pc = "delivering" /\ emitters'[t].raised)
                => emitters'[t].pc = "delivering"
          /\ EmitReturns(t) => ToCall(t) \subseteq Called(t)]_vars

\* the first handler raised and the second one was called all the same
C27_CalledAfterRaise ==
    \E t \in NodeTasks :
        /\ emitters[t].pc = "delivering"
        /\ emitters[t].raised
        /\ emitters[t].called = <<"h1", "h2">>
        /\ emitters[t].next > Len(emitters[t].handlers)

\* how often h stands in the list
Occurrences(hs, h) == Cardinality({i \in DOMAIN hs : hs[i] = h})

\* C28: one emit calls a handler at most once, also when it is subscribed to
\* the type and to * or twice to one topic; and an unsubscribe of a handler
\* from a topic leaves no subscription of that handler to that topic.
C28_AtMostOncePerSubscriber ==
    [][/\ \A t \in NodeTasks :
             EmitReturns(t) => \A h \in Handlers : Occurrences(emitters[t].called, h) <= 1
       /\ \A topic \in Topics, h \in Handlers :
             Occurrences(listeners'[topic], h) < Occurrences(listeners[topic], h)
                => Occurrences(listeners'[topic], h) = 0]_vars

\* clear_history ran in this step
HistoryCleared == event_history # <<>> /\ event_history' = <<>>

\* C29: the history is a bounded ring: it never holds all the events that
\* were emitted once they outnumber its capacity (here any capacity below the
\* number of events the node tasks emit), and clear_history empties it and
\* leaves the subscribers alone.
C29_HistoryIsBoundedRing ==
    [][/\ Len(event_history') < 2 * MaxNodeTasks
       /\ HistoryCleared => listeners' = listeners]_vars

\* the timestamps of the recorded events never go down
TimestampOrdered(history) ==
    \A i, j \in DOMAIN history : i < j => history[i].timestamp <= history[j].timestamp

C39_FailedAddChangesNothing ==
    [][(lastCall'.op = "add" /\ calls' = calls + 1 /\ ~lastCall'.ok)
          => /\ ListView' = ListView
             /\ GetView' = GetView
             /\ current_id' = current_id]_vars

\* the edge names two nodes by indexes in 0 .. len(nodes) - 1
EdgeInRange(w, e) ==
    /\ e.source \in 0 .. Len(w.nodes) - 1
    /\ e.target \in 0 .. Len(w.nodes) - 1

\* C33: a workflow with an edge whose source or target index lies outside
\* 0 .. len(nodes) - 1, negative indexes included, is rejected by link and so
\* by add: no stored definition has such an edge.
C33_StoredEdgesInRange ==
    \A n \in DOMAIN workflows :
        LET w == heap[workflows[n].workflow]
        IN \A i \in DOMAIN w.edges : EdgeInRange(w, w.edges[i])

\* C34: no workflow with a node whose type tag is not in the node kind
\* registry is stored, so no stored node is built as the default kind.
C34_StoredTagsAreRegistered ==
    \A n \in DOMAIN workflows :
        LET w == heap[workflows[n].workflow]
        IN \A i \in DOMAIN w.nodes :
              /\ w.nodes[i].type \in NODE_TYPES
              /\ create_node(w.nodes[i]) # "WFBaseType"

\* C32: a call that names an unknown workflow or an unknown execution id
\* reports not_found, emits nothing and leaves every execution as it was.
C32_UnknownIdIsNotFound ==
    [][(requests' = requests + 1 /\ ~reply'.known)
          => /\ reply'.result = "not_found"
             /\ executions' = executions
             /\ engineLog' = engineLog]_vars

\* ------------------------------------------- the streaming endpoint
\* the websockets that connect to /workflow/events
Sockets == 1 .. MaxClients

\* what `await websocket.receive_text()` does: it returns a text, or raises
\* WebSocketDisconnect (starlette: a subclass of Exception), another
\* Exception, or CancelledError (a BaseException) when the server cancels
\* the connection's task
Outcomes == {"text", "WebSocketDisconnect", "RuntimeError", "CancelledError"}
IsException(outcome) == outcome \in {"WebSocketDisconnect", "RuntimeError"}

WsInit ==
    /\ websocket_clients = {}
    /\ connections = [c \in Sockets |-> [pc |-> "closed", received |-> 0]]
    /\ EngineOff
    /\ StartOff
    /\ RegOff
    /\ BusOff
    /\ LookOff
    /\ NodeOff

add_websocket_client(c) == websocket_clients' = websocket_clients \cup {c}
remove_websocket_client(c) == websocket_clients' = websocket_clients \ {c}

\* the handler up to its first receive: the client is registered on the bus
Accept(c) ==
    /\ connections[c].pc = "closed"
    /\ add_websocket_client(c)
    /\ connections' = [connections EXCEPT ![c].pc = "receiving"]

\* the try inside the loop: `except Exception` ends the loop with break,
\* anything else leaves the try as it came
InnerTry(outcome) ==
    IF outcome = "text" THEN "continue"
    ELSE IF IsException(outcome) THEN "break" ELSE outcome

\* one pass of the handler's loop, and the rest of the handler when the loop ends
Receive(c, outcome) ==
    /\ connections[c].pc = "receiving"
    /\ LET left == InnerTry(outcome)
       IN IF left = "continue"
          THEN /\ connections[c].received < MaxMessages
               /\ connections' = [connections EXCEPT ![c].received = @ + 1]
               /\ UNCHANGED websocket_clients
          ELSE /\ IF IsException(left)
                  THEN remove_websocket_client(c)
                  ELSE UNCHANGED websocket_clients
               /\ connections' = [connections EXCEPT ![c].pc = "returned"]

\* the bus writes an event to every client: a failed write removes the client
Broadcast ==
    /\ websocket_clients # {}
    /\ websocket_clients' = {c \in websocket_clients : connections[c].pc = "receiving"}
    /\ UNCHANGED connections

WsNext ==
    \/ \E c \in Sockets : Accept(c) /\ UNCHANGED notWs
    \/ \E c \in Sockets, outcome \in Outcomes : Receive(c, outcome) /\ UNCHANGED notWs
    \/ Broadcast /\ UNCHANGED notWs

WsSpec == WsInit /\ [][WsNext]_vars

\* C31: once the handler of a connection has returned, the bus no longer holds
\* the connection's websocket among its streaming clients
C31_ReturnedClientNotRegistered ==
    \A c \in Sockets : connections[c].pc = "returned" => c \notin websocket_clients

\* the nodes a list of the status reply names, and a list without duplicates
Listed(s) == {s[i] : i \in DOMAIN s}
DuplicateFree(s) == \A i, j \in DOMAIN s : s[i] = s[j] => i = j

\* C37: the state a status query returns is a consistent snapshot: no node has
\* the per-node status completed or failed while current_nodes still lists it;
\* current_nodes, completed_nodes and failed_nodes are pairwise disjoint and
\* free of duplicates, and name the scheduler's running, completed and failed
\* sets
C37_StatusSnapshotConsistent ==
    /\ \A n \in Listed(state.current_nodes) :
          state.node_states[n] \notin {COMPLETED, FAILED}
    /\ Listed(state.current_nodes) \cap Listed(state.completed_nodes) = {}
    /\ Listed(state.current_nodes) \cap Listed(state.failed_nodes) = {}
    /\ Listed(state.completed_nodes) \cap Listed(state.failed_nodes) = {}
    /\ DuplicateFree(state.current_nodes)
    /\ DuplicateFree(state.completed_nodes)
    /\ DuplicateFree(state.failed_nodes)
    /\ Listed(state.current_nodes) = ctx.running_nodes
    /\ Listed(state.completed_nodes) = ctx.completed_nodes
    /\ Listed(state.failed_nodes) = ctx.failed_nodes

\* task t is a user_input node's task that waits for its future
Waiting(t) == t \in DOMAIN ntasks /\ ntasks[t].pc = "waiting"
\* wait_for has timed out in task t
TimedOut(t) == t \in DOMAIN ntasks /\ ntasks[t].future = "cancelled"

\* C36: a waiting user_input node leaves running in every case: its task stops
\* waiting (a task never waits twice, so in the end no task waits); when a value was provided the node completes; when the wait times
\* out the node fails and the execution reaches a terminal phase; and a
\* timeout never fails a node of another kind
C36_WaitingInputSettles ==
    /\ <>[](\A t \in DOMAIN ntasks : ~Waiting(t))
    /\ [][\A t \in DOMAIN ntasks :
             (Waiting(t) /\ ntasks[t].future = "resolved" /\ ntasks'[t].pc # "waiting")
                => state'.node_states[ntasks[t].node] = COMPLETED]_vars
    /\ [](\A t \in DOMAIN ntasks :
             TimedOut(t) => /\ wf.type[ntasks[t].node] = "user_input"
                            /\ ntasks[t].success = FALSE)
    /\ (\E t \in DOMAIN ntasks : TimedOut(t)) ~> state.status # RUNNING

\* ------------------------------------------- node library: merge and switch
\* Python's None where the other values are strings
NoVal == "<None>"

\* the values that reach a node over its edges
SourceValues == {"x", "y"}
\* what a merge node's config holds under "strategy" (NoVal: the key is absent)
Strategies == {NoVal, "first", "last", "concat", "all", "newest"}
\* what a switch node's config holds as case names, and what its script leaves
\* in val (NoVal: the script does not assign it; "raise": the script raises)
CaseNames == {"a", "b", "default"}
ScriptResults == {NoVal, "a", "b", "default", "c", "raise"}

SeqsUpTo(S, n) == UNION {[1 .. k -> S] : k \in 0 .. n}

\* a Python value: None, a single value, or a list
PyNone == [list |-> FALSE, items |-> <<>>]
PyValue(v) == [list |-> FALSE, items |-> <<v>>]
PyList(s) == [list |-> TRUE, items |-> s]

\* a merge node of one of the two implementations with the values gathered
\* for it, in the order the implementation meets them
MergeInputs ==
    {[kind |-> "merge", impl |-> cls, strategy |-> s, sources |-> src,
      case_keys |-> <<>>, lang |-> "", script |-> "", input_value |-> ""] :
        cls \in {"MergeNode", "MergeNodeExecutor"},
        s \in Strategies, src \in SeqsUpTo(SourceValues, MaxSources)}

\* a switch node: the keys of config["cases"] in dict order, the script's
\* language and what the script does ("" when there is no script)
SwitchInputs ==
    {[kind |-> "switch", impl |-> "SwitchNode", strategy |-> NoVal, sources |-> <<>>,
      case_keys |-> keys, lang |-> lang, script |-> script, input_value |-> v] :
        keys \in {k \in SeqsUpTo(CaseNames, MaxCases) :
                     \A i, j \in DOMAIN k : k[i] = k[j] => i = j},
        lang \in {"python", "jinja2"}, script \in ScriptResults \cup {""},
        v \in SourceValues}

\* NodeExecutionResult()
NoResult == [success |-> TRUE, outputs |-> <<>>, next_target |-> NoVal, error |-> ""]

NodeInit ==
    /\ nodeCfg \in MergeInputs \cup SwitchInputs
    /\ nodePc = "new"
    /\ nodeResult = NoResult
    /\ EngineOff
    /\ StartOff
    /\ RegOff
    /\ BusOff
    /\ LookOff
    /\ WsOff

\* the schema object of the node: a merge node carries its strategy as a
\* plain string field
SchemaNode(n) ==
    IF n.kind = "merge"
    THEN [type |-> "merge_node", value |-> None, input |-> ListInput,
          strategy |-> n.strategy]
    ELSE [type |-> "switch_node", value |-> None, input |-> NoInput,
          strategy |-> NoVal]

\* the workflow that holds the node: two values wired into a merge node, or
\* the switch node alone
NodeWorkflow(n) ==
    IF n.kind = "merge"
    THEN [WLinkMerge EXCEPT !.nodes[3] = SchemaNode(n)]
    ELSE WorkflowValue("", <<SchemaNode(n)>>, <<>>)

\* Workflow.link on the workflow that holds the node
NodeLink ==
    /\ nodePc = "new"
    /\ nodePc' = IF LinkFails(NodeWorkflow(nodeCfg)) THEN "rejected" ELSE "linked"
    /\ UNCHANGED <<nodeCfg, nodeResult>>

\* dict.get(key, default)
ConfigGet(v, default) == IF v = NoVal THEN default ELSE v

RECURSIVE Join(_)
Join(s) == IF s = <<>> THEN "" ELSE Head(s) \o Join(Tail(s))

\* MergeNode.execute, lines 317-330: every value here is a str
Merged(strategy, gathered) ==
    IF strategy = "first"
    THEN IF gathered # <<>> THEN PyValue(gathered[1]) ELSE PyNone
    ELSE IF strategy = "last"
    THEN IF gathered # <<>> THEN PyValue(gathered[Len(gathered)]) ELSE PyNone
    ELSE IF strategy = "concat"
    THEN IF gathered # <<>> THEN PyValue(Join(gathered)) ELSE PyList(gathered)
    ELSE PyList(gathered)

\* MergeNode.execute
MergeExecute ==
    /\ nodePc = "linked"
    /\ nodeCfg.kind = "merge"
    /\ nodeCfg.impl = "MergeNode"
    /\ LET strategy == ConfigGet(nodeCfg.strategy, "first")
       IN nodeResult' = [NoResult EXCEPT
                            !.outputs = [slot \in {"target"} |-> Merged(strategy, nodeCfg.sources)]]
    /\ nodePc' = "executed"
    /\ UNCHANGED nodeCfg

\* MergeNodeExecutor.execute, lines 292-300: node.strategy defaults to first
MergedOutputs(strategy, incoming_outputs) ==
    IF strategy = "first"
    THEN IF incoming_outputs # <<>> THEN PyValue(incoming_outputs[1]) ELSE PyNone
    ELSE IF strategy = "last"
    THEN IF incoming_outputs # <<>>
         THEN PyValue(incoming_outputs[Len(incoming_outputs)]) ELSE PyNone
    ELSE PyList(incoming_outputs)

\* MergeNodeExecutor.execute
MergeExecutorExecute ==
    /\ nodePc = "linked"
    /\ nodeCfg.kind = "merge"
    /\ nodeCfg.impl = "MergeNodeExecutor"
    /\ nodeResult' = [NoResult EXCEPT
                         !.outputs = [slot \in {"merged"} |->
                                         MergedOutputs(ConfigGet(nodeCfg.strategy, "first"),
                                                       nodeCfg.sources)]]
    /\ nodePc' = "executed"
    /\ UNCHANGED nodeCfg

\* the keys of the switch node's cases
CaseKeys(n) == {n.case_keys[i] : i \in DOMAIN n.case_keys}
SlotName(case_key) == "cases." \o case_key

\* SwitchNode.execute, lines 217-226: selected_case starts as "default"; a
\* python script is run with val preset to None and local_vars.get("val",
\* "default") then returns what val holds
SelectedCase(n) ==
    IF n.script # "" /\ n.lang = "python" THEN n.script ELSE "default"

\* SwitchNode.execute, lines 228-242: one entry per case key, then the default
\* entry
SwitchOutputs(n, selected_case) ==
    LET slots == {SlotName(k) : k \in CaseKeys(n)} \cup {"default"}
    IN [slot \in slots |->
          IF slot = "default"
          THEN [data |-> n.input_value,
                matched |-> (selected_case = "default" \/ selected_case \notin CaseKeys(n)),
                case |-> "default"]
          ELSE LET case_key == CHOOSE k \in CaseKeys(n) : SlotName(k) = slot
               IN [data |-> n.input_value,
                   matched |-> (selected_case = case_key),
                   case |-> case_key]]

\* SwitchNode.execute (WFSwitchNode.execute is the same code)
SwitchExecute ==
    /\ nodePc = "linked"
    /\ nodeCfg.kind = "switch"
    /\ LET selected_case == SelectedCase(nodeCfg)
       IN nodeResult' =
            IF selected_case = "raise"
            THEN [NoResult EXCEPT !.success = FALSE, !.error = "raise"]
            ELSE [NoResult EXCEPT !.outputs = SwitchOutputs(nodeCfg, selected_case),
                                  !.next_target = selected_case]
    /\ nodePc' = "executed"
    /\ UNCHANGED nodeCfg

NodeNext ==
    \/ NodeLink /\ UNCHANGED notNode
    \/ MergeExecute /\ UNCHANGED notNode
    \/ MergeExecutorExecute /\ UNCHANGED notNode
    \/ SwitchExecute /\ UNCHANGED notNode

NodeSpec == NodeInit /\ [][NodeNext]_vars

\* the strategies a merge node may name
MergeStrategies == {"first", "last", "concat", "all"}

\* the value the executed merge node put out
MergeOutput == nodeResult.outputs[IF nodeCfg.impl = "MergeNode" THEN "target" ELSE "merged"]

\* C35: a merge node that names a strategy is executed only when the strategy
\* is first, last, concat or all (any other is rejected by link); first puts
\* out the first gathered value, last the last, all the list of the gathered
\* values
C35_MergeStrategies ==
    (nodeCfg.kind = "merge" /\ nodeCfg.strategy # NoVal) =>
        /\ nodePc \in {"linked", "executed"} => nodeCfg.strategy \in MergeStrategies
        /\ (nodePc = "executed" /\ nodeCfg.sources # <<>>) =>
              /\ nodeCfg.strategy = "first" => MergeOutput = PyValue(nodeCfg.sources[1])
              /\ nodeCfg.strategy = "last" => MergeOutput = PyValue(nodeCfg.sources[Len(nodeCfg.sources)])
              /\ nodeCfg.strategy = "all" => MergeOutput = PyList(nodeCfg.sources)

\* the slots of the executed switch node that are marked matched
MatchedSlots == {slot \in DOMAIN nodeResult.outputs : nodeResult.outputs[slot].matched}

\* what the script selected: None without a python script
ScriptSelected == IF nodeCfg.script # "" /\ nodeCfg.lang = "python" THEN nodeCfg.script ELSE NoVal

\* C38: a switch node that executed successfully marks exactly one slot as
\* matched: cases.k when the script selected the existing case k, default
\* otherwise; next_target is k in the first case, default when the script
\* selected nothing or default, and default or the selected name when that
\* names no case
C38_SwitchMatchesOneSlot ==
    (nodeCfg.kind = "switch" /\ nodePc = "executed" /\ nodeResult.success) =>
        /\ Cardinality(MatchedSlots) = 1
        /\ MatchedSlots = {IF ScriptSelected \in CaseKeys(nodeCfg)
                           THEN SlotName(ScriptSelected) ELSE "default"}
        /\ nodeResult.next_target \in
              IF ScriptSelected \in CaseKeys(nodeCfg) THEN {ScriptSelected}
              ELSE IF ScriptSelected \in {NoVal, "default"} THEN {"default"}
              ELSE {"default", ScriptSelected}
====
